---- MODULE Spec2Model ----
(***************************************************************************)
(* Model of quizlet.py: one call of scrape_quizlet_flashcards driving a    *)
(* browser session over a page whose DOM, and an HTTP server whose         *)
(* responses, are the inputs.                                              *)
(***************************************************************************)
EXTENDS Integers, Sequences, FiniteSets, TLC

VARIABLES pc, site, terms, idx, cards, files, calls, trace, quitCalls,
          outcome, value, error

vars == <<pc, site, terms, idx, cards, files, calls, trace, quitCalls,
          outcome, value, error>>

(* ---------------------------- bounds ----------------------------------- *)

\* largest number of term elements in the term-list container
MaxTerms == 2

(* ---------------------------- values ----------------------------------- *)

\* Python's None, as the value of back_image_path
None == <<>>

\* no exception raised
NoExc == "none"

TimeoutException == "TimeoutException"
NoSuchElementException == "NoSuchElementException"
WebDriverException == "WebDriverException"
RequestException == "RequestException"
ValueError == "ValueError"

\* texts a span element can show; a span may be empty
FrontTexts == {"", "Mitosis"}
BackTexts == {"", "Cell division"}

\* HTTP status codes a server answers with: 200, a success status other
\* than 200, and a failure status
StatusCodes == {200, 204, 404}

\* response bodies: empty and non-empty
Contents == {"", "bytes"}

\* what requests.get gives: a response, or an exception of the HTTP client
NoResponse == [received |-> FALSE, status_code |-> 0, content |-> ""]

Responses ==
    {[received |-> TRUE, status_code |-> s, content |-> c] :
        s \in StatusCodes, c \in Contents} \cup {NoResponse}

\* the waits of authenticate_to_quizlet, in order; "ok" = none timed out
AuthWaits == <<"login_button", "username", "password", "submit", "latest">>

AuthResults == {AuthWaits[i] : i \in 1..Len(AuthWaits)} \cup {"ok"}

\* the page and the browser, as the call finds them
Sites ==
    [launch : BOOLEAN, auth : AuthResults, details : BOOLEAN,
     container : BOOLEAN]

\* a term element of the DOM: which of the elements the selectors look for
\* exist under it, and the text of the two spans.  An element that is
\* missing has no descendants and a missing span shows no text.
TermElements ==
    {t \in [content : BOOLEAN, smallSide : BOOLEAN, smallSpan : BOOLEAN,
            frontText : FrontTexts, largeSide : BOOLEAN, defElem : BOOLEAN,
            defSpan : BOOLEAN, backText : BackTexts, img : BOOLEAN] :
        /\ t.smallSide => t.content
        /\ t.smallSpan => t.smallSide
        /\ t.frontText # "" => t.smallSpan
        /\ t.largeSide => t.content
        /\ t.defElem => t.largeSide
        /\ t.defSpan => t.defElem
        /\ t.backText # "" => t.defSpan
        /\ t.img => t.largeSide}

RECURSIVE SeqsUpTo(_, _)
SeqsUpTo(S, n) ==
    IF n = 0 THEN {<<>>}
    ELSE LET shorter == SeqsUpTo(S, n - 1)
         IN shorter \cup {Append(s, x) : s \in {q \in shorter : Len(q) = n - 1}, x \in S}

\* what find_elements_by_class_name can return, in document order
TermLists == SeqsUpTo(TermElements, MaxTerms)

Flashcard(front, back, back_image_path) ==
    [front |-> front, back |-> back, back_image_path |-> back_image_path]

\* tempfile.mkstemp: a name no earlier file has
mkstemp(fs) == <<"tmp", Len(fs) + 1>>

Event(op, i) == [op |-> op, i |-> i]

NoError == [exc |-> NoExc, at |-> "none", term |-> 0]

(* ------------------------ the term functions --------------------------- *)

_process_small_side_elem(t) ==
    IF ~t.smallSpan
    THEN [exc |-> NoSuchElementException, text |-> ""]
    ELSE [exc |-> NoExc, text |-> t.frontText]

_process_definition_text_elem(t) ==
    IF ~t.defElem \/ ~t.defSpan
    THEN [exc |-> NoSuchElementException, text |-> ""]
    ELSE [exc |-> NoExc, text |-> t.backText]

_image_exists(t) == t.img

\* the result of a _download_image call: the exception raised or the path
\* returned, the files afterwards, and whether an HTTP request was made
DownloadResult(exc, path, fs, requested) ==
    [exc |-> exc, path |-> path, files |-> fs, requested |-> requested]

\* variant: the temporary file is made before the image is looked for, and
\* its name is returned when there is no image
_download_image_file_first(t, resp, fs) ==
    LET file_name == mkstemp(fs)
    IN IF ~_image_exists(t)
       THEN DownloadResult(NoExc, file_name,
                Append(fs, [name |-> file_name, content |-> ""]), FALSE)
       ELSE IF ~resp.received
       THEN DownloadResult(RequestException, None, fs, TRUE)
       ELSE IF resp.status_code # 200
       THEN DownloadResult(ValueError, None, fs, TRUE)
       ELSE DownloadResult(NoExc, file_name,
                Append(fs, [name |-> file_name, content |-> resp.content]),
                TRUE)

\* variant: only statuses from 400 on are refused
_download_image_ge_400(t, resp, fs) ==
    IF ~_image_exists(t)
    THEN DownloadResult(NoExc, None, fs, FALSE)
    ELSE IF ~resp.received
    THEN DownloadResult(RequestException, None, fs, TRUE)
    ELSE IF resp.status_code >= 400
    THEN DownloadResult(ValueError, None, fs, TRUE)
    ELSE LET file_name == mkstemp(fs)
         IN DownloadResult(NoExc, file_name,
                Append(fs, [name |-> file_name, content |-> resp.content]),
                TRUE)

\* variant: the temporary file is made before the status is looked at
_download_image_mkstemp_before_status(t, resp, fs) ==
    LET file_name == mkstemp(fs)
        written == Append(fs, [name |-> file_name, content |-> resp.content])
    IN IF ~_image_exists(t)
       THEN DownloadResult(NoExc, None, fs, FALSE)
       ELSE IF ~resp.received
       THEN DownloadResult(RequestException, None, fs, TRUE)
       ELSE IF resp.status_code # 200
       THEN DownloadResult(ValueError, None, written, TRUE)
       ELSE DownloadResult(NoExc, file_name, written, TRUE)

_download_image(t, resp, fs) ==
    IF ~_image_exists(t)
    THEN DownloadResult(NoExc, None, fs, FALSE)
    ELSE IF ~resp.received
    THEN DownloadResult(RequestException, None, fs, TRUE)
    ELSE IF resp.status_code # 200
    THEN DownloadResult(ValueError, None, fs, TRUE)
    ELSE LET file_name == mkstemp(fs)
         IN DownloadResult(NoExc, file_name,
                Append(fs, [name |-> file_name, content |-> resp.content]),
                TRUE)

\* the result of _process_large_side_elem: definition text and image path,
\* or the exception; downloaded tells whether _download_image was called
_process_large_side_elem(t, resp, fs) ==
    LET definition == _process_definition_text_elem(t)
        image == _download_image(t, resp, fs)
    IN IF definition.exc # NoExc
       THEN [exc |-> definition.exc, at |-> "definition", back |-> "",
             path |-> None, files |-> fs, downloaded |-> FALSE,
             image |-> DownloadResult(NoExc, None, fs, FALSE)]
       ELSE [exc |-> image.exc, at |-> "image", back |-> definition.text,
             path |-> image.path, files |-> image.files,
             downloaded |-> TRUE, image |-> image]

\* the result of _process_term_element: the card, or the exception and the
\* place it was raised at
TermResult(exc, at, card, large) ==
    [exc |-> exc, at |-> at, card |-> card, files |-> large.files,
     downloaded |-> large.downloaded, image |-> large.image]

NoCard == Flashcard("", "", None)

\* variant: the two texts change sides
_process_term_element_swapped(t, resp, fs) ==
    LET untouched == [files |-> fs, downloaded |-> FALSE,
                      image |-> DownloadResult(NoExc, None, fs, FALSE)]
        large == _process_large_side_elem(t, resp, fs)
        small == _process_small_side_elem(t)
    IN IF ~t.content
       THEN TermResult(NoSuchElementException, "content", NoCard, untouched)
       ELSE IF ~t.smallSide
       THEN TermResult(NoSuchElementException, "small_side", NoCard, untouched)
       ELSE IF ~t.largeSide
       THEN TermResult(NoSuchElementException, "large_side", NoCard, untouched)
       ELSE IF large.exc # NoExc
       THEN TermResult(large.exc, large.at, NoCard, large)
       ELSE IF small.exc # NoExc
       THEN TermResult(small.exc, "small_span", NoCard, large)
       ELSE TermResult(NoExc, "none",
                Flashcard(large.back, small.text, large.path), large)

\* variant: the small side is read before the large side is processed
_process_term_element_small_first(t, resp, fs) ==
    LET untouched == [files |-> fs, downloaded |-> FALSE,
                      image |-> DownloadResult(NoExc, None, fs, FALSE)]
        large == _process_large_side_elem(t, resp, fs)
        small == _process_small_side_elem(t)
    IN IF ~t.content
       THEN TermResult(NoSuchElementException, "content", NoCard, untouched)
       ELSE IF ~t.smallSide
       THEN TermResult(NoSuchElementException, "small_side", NoCard, untouched)
       ELSE IF ~t.largeSide
       THEN TermResult(NoSuchElementException, "large_side", NoCard, untouched)
       ELSE IF small.exc # NoExc
       THEN TermResult(small.exc, "small_span", NoCard, untouched)
       ELSE IF large.exc # NoExc
       THEN TermResult(large.exc, large.at, NoCard, large)
       ELSE TermResult(NoExc, "none",
                Flashcard(small.text, large.back, large.path), large)

_process_term_element(t, resp, fs) ==
    LET untouched == [files |-> fs, downloaded |-> FALSE,
                      image |-> DownloadResult(NoExc, None, fs, FALSE)]
        large == _process_large_side_elem(t, resp, fs)
        small == _process_small_side_elem(t)
    IN IF ~t.content
       THEN TermResult(NoSuchElementException, "content", NoCard, untouched)
       ELSE IF ~t.smallSide
       THEN TermResult(NoSuchElementException, "small_side", NoCard, untouched)
       ELSE IF ~t.largeSide
       THEN TermResult(NoSuchElementException, "large_side", NoCard, untouched)
       ELSE IF large.exc # NoExc
       THEN TermResult(large.exc, large.at, NoCard, large)
       ELSE IF small.exc # NoExc
       THEN TermResult(small.exc, "small_span", NoCard, large)
       ELSE TermResult(NoExc, "none",
                Flashcard(small.text, large.back, large.path), large)

(* ----------------------------- the call -------------------------------- *)

Init ==
    /\ pc = "launch"
    /\ site \in Sites
    /\ terms = <<>>
    /\ idx = 1
    /\ cards = <<>>
    /\ files = <<>>
    /\ calls = <<>>
    /\ trace = <<>>
    /\ quitCalls = 0
    /\ outcome = "running"
    /\ value = <<>>
    /\ error = NoError

\* an exception inside the with block: control goes to the block's exit
Raise(exc, at, k) ==
    /\ pc' = "exit"
    /\ error' = [exc |-> exc, at |-> at, term |-> k]

\* init_chrome_webdriver(): webdriver.Chrome starts the browser or raises,
\* and then the with block is never entered
init_chrome_webdriver ==
    /\ pc = "launch"
    /\ IF site.launch
       THEN /\ pc' = "auth"
            /\ trace' = Append(trace, Event("open", 0))
            /\ UNCHANGED <<outcome, error>>
       ELSE /\ pc' = "done"
            /\ outcome' = "raised"
            /\ error' = [exc |-> WebDriverException, at |-> "launch", term |-> 0]
            /\ UNCHANGED trace
    /\ UNCHANGED <<site, terms, idx, cards, files, calls, quitCalls, value>>

\* variant: the last wait, for the post-login URL, is not made
authenticate_to_quizlet_no_url_wait ==
    /\ pc = "auth"
    /\ IF site.auth \in {"ok", "latest"}
       THEN /\ pc' = "get"
            /\ trace' = Append(trace, Event("authenticate", 0))
            /\ UNCHANGED error
       ELSE /\ Raise(TimeoutException, site.auth, 0)
            /\ UNCHANGED trace
    /\ UNCHANGED <<site, terms, idx, cards, files, calls, quitCalls, outcome, value>>

\* authenticate_to_quizlet: each wait either finds its element (or URL)
\* or times out
authenticate_to_quizlet ==
    /\ pc = "auth"
    /\ IF site.auth = "ok"
       THEN /\ pc' = "get"
            /\ trace' = Append(trace, Event("authenticate", 0))
            /\ UNCHANGED error
       ELSE /\ Raise(TimeoutException, site.auth, 0)
            /\ UNCHANGED trace
    /\ UNCHANGED <<site, terms, idx, cards, files, calls, quitCalls, outcome, value>>

\* variant: the hover is left out
GetUrlNoHover ==
    /\ pc = "get"
    /\ pc' = "script"
    /\ trace' = Append(trace, Event("get", 0))
    /\ UNCHANGED <<site, terms, idx, cards, files, calls, quitCalls, outcome, value, error>>

\* driver.get(url)
GetUrl ==
    /\ pc = "get"
    /\ pc' = "hover"
    /\ trace' = Append(trace, Event("get", 0))
    /\ UNCHANGED <<site, terms, idx, cards, files, calls, quitCalls, outcome, value, error>>

\* find_element_by_id('setPageSetDetails') and the move to it
Hover ==
    /\ pc = "hover"
    /\ IF site.details
       THEN /\ pc' = "script"
            /\ trace' = Append(trace, Event("hover", 0))
            /\ UNCHANGED error
       ELSE /\ Raise(NoSuchElementException, "details", 0)
            /\ UNCHANGED trace
    /\ UNCHANGED <<site, terms, idx, cards, files, calls, quitCalls, outcome, value>>

\* user_agent = driver.execute_script(...)
UserAgent ==
    /\ pc = "script"
    /\ pc' = "wait"
    /\ trace' = Append(trace, Event("script", 0))
    /\ UNCHANGED <<site, terms, idx, cards, files, calls, quitCalls, outcome, value, error>>

\* get_elem_wait_by_xpath for the term-list container
get_elem_wait_by_xpath ==
    /\ pc = "wait"
    /\ IF site.container
       THEN /\ pc' = "collect"
            /\ trace' = Append(trace, Event("wait", 0))
            /\ UNCHANGED error
       ELSE /\ Raise(TimeoutException, "container", 0)
            /\ UNCHANGED trace
    /\ UNCHANGED <<site, terms, idx, cards, files, calls, quitCalls, outcome, value>>

\* terms = terms_list_element.find_elements_by_class_name(...)
CollectTerms ==
    /\ pc = "collect"
    /\ \E ts \in TermLists : terms' = ts
    /\ pc' = "terms"
    /\ trace' = Append(trace, Event("collect", 0))
    /\ UNCHANGED <<site, idx, cards, files, calls, quitCalls, outcome, value, error>>

\* the record of one _download_image call
CallRecord(k, r, resp) ==
    [term |-> k, img |-> _image_exists(terms[k]), exc |-> r.image.exc,
     path |-> r.image.path, requested |-> r.image.requested,
     resp |-> IF r.image.requested THEN resp ELSE NoResponse,
     created |-> Len(r.image.files) - Len(files)]

\* variant: a term that raises is skipped
ProcessTermSkip ==
    /\ pc = "terms"
    /\ idx <= Len(terms)
    /\ \E resp \in Responses :
         LET r == _process_term_element(terms[idx], resp, files)
         IN /\ files' = r.files
            /\ calls' = IF r.downloaded
                        THEN Append(calls, CallRecord(idx, r, resp))
                        ELSE calls
            /\ trace' = Append(trace, Event("term", idx))
            /\ cards' = IF r.exc = NoExc THEN Append(cards, r.card) ELSE cards
            /\ idx' = idx + 1
            /\ UNCHANGED <<pc, error>>
    /\ UNCHANGED <<site, terms, quitCalls, outcome, value>>

\* one step of the list comprehension: _process_term_element(terms[idx])
ProcessTerm ==
    /\ pc = "terms"
    /\ idx <= Len(terms)
    /\ \E resp \in Responses :
         LET r == _process_term_element(terms[idx], resp, files)
         IN /\ files' = r.files
            /\ calls' = IF r.downloaded
                        THEN Append(calls, CallRecord(idx, r, resp))
                        ELSE calls
            /\ trace' = Append(trace, Event("term", idx))
            /\ IF r.exc = NoExc
               THEN /\ cards' = Append(cards, r.card)
                    /\ idx' = idx + 1
                    /\ UNCHANGED <<pc, error>>
               ELSE /\ Raise(r.exc, r.at, idx)
                    /\ UNCHANGED <<cards, idx>>
    /\ UNCHANGED <<site, terms, quitCalls, outcome, value>>

\* return [...]: the list is complete
Return ==
    /\ pc = "terms"
    /\ idx > Len(terms)
    /\ pc' = "exit"
    /\ UNCHANGED <<site, terms, idx, cards, files, calls, trace, quitCalls, outcome, value, error>>

\* variant: the driver is used without the with block
ExitNoQuit ==
    /\ pc = "exit"
    /\ pc' = "done"
    /\ IF error.exc = NoExc
       THEN outcome' = "returned" /\ value' = cards
       ELSE outcome' = "raised" /\ value' = <<>>
    /\ UNCHANGED <<site, terms, idx, cards, files, calls, trace, quitCalls, error>>

\* leaving the with block, by return or by exception: the driver's
\* __exit__ quits the browser, then the caller gets the list or the exception
Exit ==
    /\ pc = "exit"
    /\ quitCalls' = quitCalls + 1
    /\ pc' = "done"
    /\ IF error.exc = NoExc
       THEN outcome' = "returned" /\ value' = cards
       ELSE outcome' = "raised" /\ value' = <<>>
    /\ UNCHANGED <<site, terms, idx, cards, files, calls, trace, error>>

Next ==
    \/ init_chrome_webdriver
    \/ authenticate_to_quizlet
    \/ GetUrl
    \/ Hover
    \/ UserAgent
    \/ get_elem_wait_by_xpath
    \/ CollectTerms
    \/ ProcessTerm
    \/ Return
    \/ Exit

Spec == Init /\ [][Next]_vars

(* ----------------------------- properties ------------------------------ *)

\* the DOM of a term element has every element the selectors look for
MatchesExpectedStructure(t) ==
    /\ t.content
    /\ t.smallSide
    /\ t.smallSpan
    /\ t.largeSide
    /\ t.defElem
    /\ t.defSpan

Range(s) == {s[i] : i \in DOMAIN s}

FileNames == {f.name : f \in Range(files)}

\* the terms before position k that have an image
ImagesBefore(k) == {i \in 1..(k - 1) : terms[i].img}

\* C1 as stated: a successful scrape of N well-formed terms returns N
\* records, the i-th from the i-th term, each with non-empty front and
\* non-empty back text.
C1_NonEmptyTexts ==
    (outcome = "returned" /\ \A i \in DOMAIN terms : MatchesExpectedStructure(terms[i]))
    => /\ Len(value) = Len(terms)
       /\ \A i \in DOMAIN value :
            /\ value[i].front = terms[i].frontText
            /\ value[i].back = terms[i].backText
            /\ value[i].front # ""
            /\ value[i].back # ""

\* C1 amended: a successful scrape of N terms returns N records, the i-th
\* holding the text of the i-th term's small-side span as front and of its
\* definition span as back, whatever these texts are (empty included).
C1_RecordsInDocumentOrder ==
    outcome = "returned"
    => /\ Len(value) = Len(terms)
       /\ \A i \in DOMAIN value :
            /\ MatchesExpectedStructure(terms[i])
            /\ value[i].front = terms[i].frontText
            /\ value[i].back = terms[i].backText

C1_Witness ==
    /\ outcome = "returned"
    /\ Len(value) = 2
    /\ value[1].front = "Mitosis"
    /\ value[2].front = ""
    /\ value[1].back = ""
    /\ value[2].back = "Cell division"

\* C2: in every returned record back_image_path is None when the term has
\* no img element, and otherwise is the name of a file the call wrote.
C2_ImagePathOnlyWithImage ==
    outcome = "returned"
    => \A i \in DOMAIN value :
         /\ ~terms[i].img => value[i].back_image_path = None
         /\ value[i].back_image_path # None
              => terms[i].img /\ value[i].back_image_path \in FileNames

C2_Witness ==
    /\ outcome = "returned"
    /\ Len(value) = 2
    /\ ~terms[1].img
    /\ value[1].back_image_path = None
    /\ terms[2].img
    /\ value[2].back_image_path # None

\* a success status of HTTP
IsSuccess(status) == status \in 200..299

\* C3 as stated: a download for an existing image either returns the path
\* of a file with non-empty content or raises the download error, and it
\* raises exactly when the response status is not a success status.
C3_TwoOutcomes ==
    \A c \in Range(calls) :
        c.img =>
          /\ \/ /\ c.exc = NoExc
                /\ \E f \in Range(files) : f.name = c.path /\ f.content # ""
             \/ c.exc = ValueError
          /\ c.exc = ValueError <=> ~IsSuccess(c.resp.status_code)

\* C3 amended: a download for an existing image raises ValueError exactly
\* when a response was received whose status is not 200; when it returns,
\* it returns the path of a new file holding the response body, which may
\* be empty; an exception of the HTTP client is the only other outcome.
C3_RaisesUnlessStatus200 ==
    \A c \in Range(calls) :
        c.img =>
          /\ c.exc \in {NoExc, ValueError, RequestException}
          /\ c.exc = ValueError <=> (c.resp.received /\ c.resp.status_code # 200)
          /\ c.exc = RequestException <=> ~c.resp.received
          /\ c.exc = NoExc =>
                /\ c.path # None
                /\ \E f \in Range(files) :
                      f.name = c.path /\ f.content = c.resp.content

C3_Witness ==
    /\ Len(calls) = 2
    /\ calls[1].img
    /\ calls[1].exc = NoExc
    /\ calls[1].resp.content = ""
    /\ calls[2].img
    /\ calls[2].exc = ValueError
    /\ calls[2].resp.status_code = 204

\* C4 as stated: whatever the stage the call returns or raises at, session
\* launch included, the session-close hook has run exactly once.
C4_ClosedOncePerCall ==
    pc = "done" => quitCalls = 1

\* C4 amended: once the session was launched, the call closes it exactly
\* once, whether it returns or raises at any later stage; when the launch
\* itself fails there is no session and the close hook does not run.
C4_ClosedOnceIfLaunched ==
    /\ quitCalls <= 1
    /\ pc # "done" => quitCalls = 0
    /\ pc = "done" => quitCalls = (IF site.launch THEN 1 ELSE 0)

C4_Witness ==
    /\ pc = "done"
    /\ outcome = "raised"
    /\ error.at = "image"
    /\ error.term = 2
    /\ quitCalls = 1

AuthenticationTimeoutError ==
    [exc |-> TimeoutException, at |-> "latest", term |-> 0]

HasEvent(op) == \E i \in DOMAIN trace : trace[i].op = op

C7_ReturnsNoneOnError ==
    (pc = "done" /\ error # NoError) => outcome = "returned"

\* the steps of a call, in the order of the code
Pipeline == <<"open", "authenticate", "get", "hover", "script", "wait", "collect">>

\* C8: the steps of a call happen in one linear order, none repeated or
\* skipped: open, authenticate, load, hover, (read the user agent,) wait
\* for the container, collect, then the terms one at a time in document
\* order; a successful call has made every step.
C8_LinearPipeline ==
    /\ \A i \in DOMAIN trace :
         trace[i] = IF i <= Len(Pipeline)
                    THEN Event(Pipeline[i], 0)
                    ELSE Event("term", i - Len(Pipeline))
    /\ Len(trace) <= Len(Pipeline) + Len(terms)
    /\ outcome = "returned" => Len(trace) = Len(Pipeline) + Len(terms)

C8_Witness ==
    /\ outcome = "returned"
    /\ Len(terms) = 2
    /\ Len(trace) = Len(Pipeline) + 2

\* C9: a _download_image call that returns None or raises has made no
\* file, one that returns a path has made exactly one, after a 200
\* response; a term whose definition text is missing causes no request
\* and no file.
C9_FileOnlyAfter200 ==
    /\ \A c \in Range(calls) :
         /\ c.path = None => c.created = 0
         /\ c.exc # NoExc => c.created = 0
         /\ c.path # None =>
               /\ c.created = 1
               /\ c.requested
               /\ c.resp.received
               /\ c.resp.status_code = 200
         /\ ~c.img => ~c.requested
    /\ Len(files) = Cardinality({i \in DOMAIN calls : calls[i].path # None})
    /\ error.at = "definition" =>
         /\ \A c \in Range(calls) : c.term # error.term
         /\ Len(files) = Cardinality({i \in DOMAIN calls :
                             calls[i].term < error.term /\ calls[i].path # None})

C9_Witness ==
    /\ pc = "done"
    /\ error.at = "definition"
    /\ error.term = 2
    /\ terms[2].img
    /\ Len(calls) = 1
    /\ Len(files) = 1

\* the records of a list that have an image path
WithPath(list) == {i \in DOMAIN list : list[i].back_image_path # None}

\* C10: after a successful call the files written correspond one-to-one to
\* the returned records with a path; after a call that failed at term k
\* the files of the terms before k, and of term k when the small-side text
\* was what failed, are still there and the caller has no path to them.
C10_FilesOfFailedScrapeRemain ==
    /\ outcome = "returned" =>
          /\ \A i, j \in WithPath(value) :
                value[i].back_image_path = value[j].back_image_path => i = j
          /\ {value[i].back_image_path : i \in WithPath(value)} = FileNames
          /\ Cardinality(WithPath(value)) = Len(files)
    /\ (outcome = "raised" /\ error.term > 0) =>
          /\ value = <<>>
          /\ Len(files) = Cardinality(ImagesBefore(error.term))
                + (IF error.at = "small_span" /\ terms[error.term].img
                   THEN 1 ELSE 0)

C10_Witness ==
    /\ outcome = "raised"
    /\ error.term = 2
    /\ error.at = "small_span"
    /\ terms[1].img
    /\ terms[2].img
    /\ Len(files) = 2
    /\ value = <<>>

TypeOK ==
    /\ pc \in {"launch", "auth", "get", "hover", "script", "wait", "collect", "terms", "exit", "done"}
    /\ idx \in 1..(MaxTerms + 1)
    /\ quitCalls \in 0..1
    /\ outcome \in {"running", "returned", "raised"}
====
